---- MODULE Spec2Model ----
(***************************************************************************)
(* Model of the quran-databases repository.                                *)
(*                                                                         *)
(*   SpecDownload : get_quran_pages.py, QuranDownloader.download_all       *)
(*                  driving process_batch / download_page under the        *)
(*                  asyncio.Semaphore permit pool.                         *)
(*   SpecLoad     : build_quran_db.py, QuranDatabaseBuilder.load_data      *)
(*                  populating the SQLite store inside one transaction.    *)
(***************************************************************************)
EXTENDS Integers, Sequences, FiniteSets, TLC

\* ------------------------------------------------------------------ bounds
MaxPage == 4
MaxStart == 2
MaxBatch == 3
MaxConcurrent == 2
MaxGroups == 2
MaxFragments == 3

VARIABLES
    \* ---- QuranDownloader (get_quran_pages.py)
    start_page,      \* self.start_page
    end_page,        \* self.end_page
    batch_size,      \* self.batch_size
    max_concurrent,  \* the value the semaphore was built with
    semaphore,       \* permits still available in self.semaphore
    dl_pc,           \* position of download_all
    batch_start,     \* loop variable of download_all
    task,            \* page -> stage of its download_page coroutine
    all_pages,       \* the accumulated list (page numbers stand for page objects)
    page_files,      \* per-page artifacts on disk
    complete_file,   \* content of the combined artifact
    complete_writes, \* number of times the combined artifact was written
    fetches,         \* page -> number of session.get calls issued for it
    failed,          \* pages reported "Error downloading/processing page"
    printed,         \* page -> which error message was printed for it, if any
    \* ---- QuranDatabaseBuilder (build_quran_db.py)
    quran_file,           \* the corpus document on disk: "ok", "missing" or "malformed"
    names_file,           \* the chapter-name map on disk, likewise
    schema,               \* tables and indexes that exist in the SQLite file
    quran_data,           \* quran_data['pages']: the groupings of the corpus document
    chapters_names,       \* chapter ids listed in the chapter-name map
    db,                   \* the committed content of the SQLite file
    tx,                   \* the content as seen through the open connection
    ld_pc,                \* position of load_data
    chapter_verse_counts, \* result of _calculate_verse_counts
    verse_cache,          \* verse_key -> verse_id
    gi,                   \* index of the grouping being processed
    fi,                   \* index of the next fragment of that grouping (0: page not inserted)
    current_chapter,      \* per-page chapter cursor
    verse_order,          \* per-page order counter
    error,                \* the exception load_data raised, if any
    warnings              \* what _verify_data_integrity reported

dl_vars == <<start_page, end_page, batch_size, max_concurrent, semaphore, dl_pc,
             batch_start, task, all_pages, page_files, complete_file,
             complete_writes, fetches, failed, printed>>

ld_vars == <<quran_file, names_file, schema, quran_data, chapters_names, db, tx, ld_pc, chapter_verse_counts,
             verse_cache, gi, fi, current_chapter, verse_order, error, warnings>>

vars == <<dl_vars, ld_vars>>

\* ------------------------------------------------------------------ helpers
Min(a, b) == IF a <= b THEN a ELSE b

Range(s) == {s[i] : i \in 1..Len(s)}

RECURSIVE Filter(_, _)
\* list comprehension [x for x in s if x \in keep]
Filter(s, keep) ==
    IF s = <<>> THEN <<>>
    ELSE IF Head(s) \in keep THEN <<Head(s)>> \o Filter(Tail(s), keep)
         ELSE Filter(Tail(s), keep)

\* ---- the input documents
PageIds == {1, 2}
Chapters == {1, 2}

\* a fragment of the corpus: verse['chapter'], verse['verse'], and whether it has a
\* 'text' key.  Verse numbers follow the single-page scenario of the specification.
Fragment(c, v, t) == [chapter |-> c, verse |-> v, text |-> t]

Fragments ==
    {Fragment(1, 7, TRUE), Fragment(1, 7, FALSE),
     Fragment(2, 1, TRUE), Fragment(2, 2, TRUE)}

\* chapter-name maps (the names themselves play no part): both list a chapter (3)
\* that the corpus never references, and one lacks chapter 2
NameMaps == {{1, 2, 3}, {1, 3}}

AllChapters == Chapters \cup UNION NameMaps

\* current_chapter = None: no chapter id of a document is 0
NoChapter == 0

\* ---- the store
EmptyStore == [chapters |-> {}, verses |-> {}, pages |-> {}, page_verses |-> {},
               verse_seq |-> 0]

\* what create_tables creates: four tables with their constraints, two indexes
SchemaObjects ==
    {"chapters", "verses", "pages", "page_verses",
     "idx_verses_chapter", "idx_page_verses_order"}

\* a document of the file system, as _load_json finds it
DocStates == {"ok", "missing", "malformed"}

\* what a load has logged as warnings: the chapters _insert_chapters found no verses
\* for, and the two result sets of _verify_data_integrity
NoWarnings == [no_verses |-> {}, discrepancies |-> {}, duplicate_orders |-> {}]

\* ============================================================ downloader
Pages == 1..MaxPage

\* stages of one download_page coroutine
Holding == {"request", "parse", "write"}          \* inside `async with self.semaphore`
Resolved == {"data", "absent"}                    \* DownloadResult returned
InFlight == {"waiting"} \cup Holding

\* range(batch_start, batch_end) as a list
PageRange(lo, hi) == [i \in 1..(IF hi > lo THEN hi - lo ELSE 0) |-> lo + i - 1]

BatchEndOffByOne(bstart) == Min(bstart + batch_size, end_page)

\* batch_end = min(batch_start + self.batch_size, self.end_page + 1)
BatchEnd(bstart) == Min(bstart + batch_size, end_page + 1)

\* batch_pages = range(batch_start, batch_end)
BatchPages == PageRange(batch_start, BatchEnd(batch_start))

HeldPermits == Cardinality({p \in Pages : task[p] \in Holding})

InitDownload ==
    /\ start_page \in 1..MaxStart
    /\ end_page \in (start_page - 1)..MaxPage
    /\ batch_size \in 1..MaxBatch
    /\ max_concurrent \in 1..MaxConcurrent
    /\ semaphore = max_concurrent
    /\ dl_pc = "loop"
    /\ batch_start = start_page
    /\ task = [p \in Pages |-> "idle"]
    /\ all_pages = <<>>
    /\ page_files = {}
    /\ complete_file = <<>>
    /\ complete_writes = 0
    /\ fetches = [p \in Pages |-> 0]
    /\ failed = {}
    /\ printed = [p \in Pages |-> "none"]
    \* the loader is not part of a download run
    /\ quran_file = "missing"
    /\ names_file = "missing"
    /\ schema = {}
    /\ quran_data = <<>>
    /\ chapters_names = {}
    /\ db = EmptyStore
    /\ tx = EmptyStore
    /\ ld_pc = "idle"
    /\ chapter_verse_counts = [c \in AllChapters |-> 0]
    /\ verse_cache = <<>>
    /\ gi = 1
    /\ fi = 0
    /\ current_chapter = NoChapter
    /\ verse_order = 0
    /\ error = "none"
    /\ warnings = NoWarnings

dl_config == <<start_page, end_page, batch_size, max_concurrent>>

\* download_all, loop head: the next batch's coroutines are created and gathered
StartBatch ==
    /\ dl_pc = "loop"
    /\ batch_start <= end_page
    /\ task' = [p \in Pages |-> IF p \in Range(BatchPages) THEN "waiting" ELSE task[p]]
    /\ dl_pc' = "gather"
    /\ UNCHANGED ld_vars
    /\ UNCHANGED <<dl_config, printed, semaphore, batch_start, all_pages, page_files,
                   complete_file, complete_writes, fetches, failed>>

AcquireUnbounded == TRUE

\* asyncio.Semaphore.acquire returns only while a permit is left
CanAcquire == semaphore > 0

\* download_page: `async with self.semaphore`, then session.get(url) is issued
Acquire(p) ==
    /\ task[p] = "waiting"
    /\ CanAcquire
    /\ semaphore' = semaphore - 1
    /\ task' = [task EXCEPT ![p] = "request"]
    /\ fetches' = [fetches EXCEPT ![p] = @ + 1]
    /\ UNCHANGED ld_vars
    /\ UNCHANGED <<dl_config, printed, dl_pc, batch_start, all_pages, page_files,
                   complete_file, complete_writes, failed>>

KeepPermit(permits) == permits

\* Semaphore.release(), run by __aexit__ of `async with self.semaphore` on every
\* way out of the block
Release(permits) == permits + 1

\* leaving `async with self.semaphore` with DownloadResult(page_num, None):
\* the else branch (status != 200) or the except branch
ReturnAbsent(p, why) ==
    /\ semaphore' = Release(semaphore)
    /\ task' = [task EXCEPT ![p] = "absent"]
    /\ failed' = failed \cup {p}
    /\ printed' = [printed EXCEPT ![p] = why]
    /\ UNCHANGED ld_vars
    /\ UNCHANGED <<dl_config, dl_pc, batch_start, all_pages, page_files,
                   complete_file, complete_writes, fetches>>

\* the response arrives with status 200
ResponseOk(p) ==
    /\ task[p] = "request"
    /\ task' = [task EXCEPT ![p] = "parse"]
    /\ UNCHANGED ld_vars
    /\ UNCHANGED <<dl_config, printed, semaphore, dl_pc, batch_start, all_pages, page_files,
                   complete_file, complete_writes, fetches, failed>>

\* the response has another status, or session.get raises (network fault)
ResponseFail(p) ==
    /\ task[p] = "request"
    /\ \E why \in {"status", "network"} : ReturnAbsent(p, why)

\* response.json() and data["pages"] succeed; the per-page write is dispatched
ParseOk(p) ==
    /\ task[p] = "parse"
    /\ task' = [task EXCEPT ![p] = "write"]
    /\ UNCHANGED ld_vars
    /\ UNCHANGED <<dl_config, printed, semaphore, dl_pc, batch_start, all_pages, page_files,
                   complete_file, complete_writes, fetches, failed>>

\* malformed body: response.json() raises or data has no "pages" key
ParseFail(p) ==
    /\ task[p] = "parse"
    /\ ReturnAbsent(p, "body")

WriteSkipped(files, p) == files

\* _write_json ran in the executor: page_<p>.json is on disk
Persisted(files, p) == files \cup {p}

\* _save_json_async completed: the artifact is on disk, DownloadResult carries data
WriteOk(p) ==
    /\ task[p] = "write"
    /\ page_files' = Persisted(page_files, p)
    /\ semaphore' = Release(semaphore)
    /\ task' = [task EXCEPT ![p] = "data"]
    /\ UNCHANGED ld_vars
    /\ UNCHANGED <<dl_config, printed, dl_pc, batch_start, all_pages, complete_file,
                   complete_writes, fetches, failed>>

\* _write_json raises (OSError): caught by `except Exception`
WriteFail(p) ==
    /\ task[p] = "write"
    /\ ReturnAbsent(p, "write")

GatherFirstCompleted == \E p \in Range(BatchPages) : task[p] \in Resolved

\* `results = await asyncio.gather(*tasks)` resumes once every task has returned
Gathered == \A p \in Range(BatchPages) : task[p] \in Resolved

SurvivorsUnfiltered == BatchPages

\* [result.data for result in results if result.data is not None], in task order
Survivors == Filter(BatchPages, {p \in Pages : task[p] = "data"})

\* process_batch returns; all_pages.extend(batch_results); next loop iteration
FinishBatch ==
    /\ dl_pc = "gather"
    /\ Gathered
    /\ all_pages' = all_pages \o Survivors
    /\ task' = [p \in Pages |-> IF p \in Range(BatchPages) THEN "idle" ELSE task[p]]
    /\ batch_start' = batch_start + batch_size
    /\ dl_pc' = "loop"
    /\ UNCHANGED ld_vars
    /\ UNCHANGED <<dl_config, printed, semaphore, page_files, complete_file,
                   complete_writes, fetches, failed>>

LoopExhaustedEarly == batch_start > start_page

\* range(self.start_page, self.end_page + 1, self.batch_size) has no further element
LoopExhausted == batch_start > end_page

\* the loop is exhausted: complete_quran is built and its write dispatched
SaveCombined ==
    /\ dl_pc = "loop"
    /\ LoopExhausted
    /\ dl_pc' = "save"
    /\ UNCHANGED ld_vars
    /\ UNCHANGED <<dl_config, printed, semaphore, batch_start, task, all_pages, page_files,
                   complete_file, complete_writes, fetches, failed>>

\* await self._save_json_async(self.complete_file, complete_quran) returns
SaveDone ==
    /\ dl_pc = "save"
    /\ complete_file' = all_pages
    /\ complete_writes' = complete_writes + 1
    /\ dl_pc' = "done"
    /\ UNCHANGED ld_vars
    /\ UNCHANGED <<dl_config, printed, semaphore, batch_start, task, all_pages, page_files,
                   fetches, failed>>

\* the combined write raises: nothing catches it, download_all propagates
SaveFail ==
    /\ dl_pc = "save"
    /\ dl_pc' = "crashed"
    /\ UNCHANGED ld_vars
    /\ UNCHANGED <<dl_config, printed, semaphore, batch_start, task, all_pages, page_files,
                   complete_file, complete_writes, fetches, failed>>

NextDownload ==
    \/ StartBatch
    \/ \E p \in Pages : Acquire(p)
    \/ \E p \in Pages : ResponseOk(p)
    \/ \E p \in Pages : ResponseFail(p)
    \/ \E p \in Pages : ParseOk(p)
    \/ \E p \in Pages : ParseFail(p)
    \/ \E p \in Pages : WriteOk(p)
    \/ \E p \in Pages : WriteFail(p)
    \/ FinishBatch
    \/ SaveCombined
    \/ SaveDone
    \/ SaveFail

\* ================================================================ loader
RECURSIVE Corpora(_, _)
\* lists of at most g groupings {"page_<p>": [fragments]} holding at most t fragments
Corpora(g, t) ==
    IF g = 0 THEN {<<>>}
    ELSE {<<>>} \cup
         UNION { LET rests  == Corpora(g - 1, t - k)
                     groups == {[page |-> p, verses |-> vs] :
                                   vs \in [1..k -> Fragments], p \in PageIds}
                 IN  {<<grp>> \o rest : grp \in groups, rest \in rests} :
                 k \in 0..t }

RECURSIVE SumSeq(_)
SumSeq(s) == IF s = <<>> THEN 0 ELSE Head(s) + SumSeq(Tail(s))

\* number of fragments of chapter c in one grouping
TallyIn(group, c) ==
    Cardinality({i \in 1..Len(group.verses) : group.verses[i].chapter = c})

\* _calculate_verse_counts: occurrences of each chapter over every fragment of every page
CalculateVerseCounts(pages_data) ==
    [c \in AllChapters |->
        SumSeq([g \in 1..Len(pages_data) |-> TallyIn(pages_data[g], c)])]

\* verse_key = f"{chapter_id}_{verse_number}": injective on pairs of integers
VerseKey(frag) == <<frag.chapter, frag.verse>>

InitLoad ==
    /\ quran_file \in DocStates
    /\ names_file \in DocStates
    \* a load that stops at `if not quran_data or not chapters_names` never looks
    \* into the corpus: the empty corpus stands for all of them
    /\ quran_data \in (IF quran_file = "ok" /\ names_file = "ok"
                          THEN Corpora(MaxGroups, MaxFragments)
                          ELSE {<<>>})
    /\ chapters_names \in (IF names_file = "ok" THEN NameMaps ELSE {{}})
    /\ schema = {}
    /\ db = EmptyStore
    /\ tx = EmptyStore
    /\ ld_pc = "create"
    /\ chapter_verse_counts = [c \in AllChapters |-> 0]
    /\ verse_cache = <<>>
    /\ gi = 1
    /\ fi = 0
    /\ current_chapter = NoChapter
    /\ verse_order = 0
    /\ error = "none"
    /\ warnings = NoWarnings
    \* the downloader is not part of a load run
    /\ start_page = 1
    /\ end_page = 0
    /\ batch_size = 1
    /\ max_concurrent = 1
    /\ semaphore = 1
    /\ dl_pc = "idle"
    /\ batch_start = 1
    /\ task = [p \in Pages |-> "idle"]
    /\ all_pages = <<>>
    /\ page_files = {}
    /\ complete_file = <<>>
    /\ complete_writes = 0
    /\ fetches = [p \in Pages |-> 0]
    /\ failed = {}
    /\ printed = [p \in Pages |-> "none"]

ld_input == <<quran_file, names_file, quran_data, chapters_names>>

DropAndCreate(existing, store) == EmptyStore

\* CREATE TABLE IF NOT EXISTS, four times: a table that exists keeps its rows, a
\* table that does not is created empty (verse_seq: the AUTOINCREMENT sequence)
CreateIfNotExists(existing, store) ==
    [chapters    |-> IF "chapters" \in existing THEN store.chapters ELSE {},
     verses      |-> IF "verses" \in existing THEN store.verses ELSE {},
     pages       |-> IF "pages" \in existing THEN store.pages ELSE {},
     page_verses |-> IF "page_verses" \in existing THEN store.page_verses ELSE {},
     verse_seq   |-> IF "verses" \in existing THEN store.verse_seq ELSE 0]

\* main: db_builder.create_tables(), committed, then load_data is called
CreateTables ==
    /\ ld_pc = "create"
    /\ schema' = schema \cup SchemaObjects
    /\ db' = CreateIfNotExists(schema, db)
    /\ tx' = db'
    /\ ld_pc' = "load"
    /\ UNCHANGED dl_vars
    /\ UNCHANGED <<ld_input, chapter_verse_counts, verse_cache, gi, fi,
                   current_chapter, verse_order, error, warnings>>

\* _load_json: the parsed document, or None for a missing or malformed file;
\* `empty` tells whether the parsed document is falsy
LoadFailed(file, empty) == file # "ok" \/ empty

\* `if not quran_data or not chapters_names`; {"pages": [...]} is never falsy
RequiredDataMissing ==
    \/ LoadFailed(quran_file, FALSE)
    \/ LoadFailed(names_file, chapters_names = {})

\* load_data: both documents are there, the connection is opened
LoadDocuments ==
    /\ ld_pc = "load"
    /\ ~RequiredDataMissing
    /\ ld_pc' = "pass1"
    /\ UNCHANGED dl_vars
    /\ UNCHANGED <<ld_input, schema, db, tx, chapter_verse_counts, verse_cache, gi, fi,
                   current_chapter, verse_order, error, warnings>>

\* load_data: logger.error("Failed to load required JSON data"); return
LoadDocumentsFail ==
    /\ ld_pc = "load"
    /\ RequiredDataMissing
    /\ ld_pc' = "returned"
    /\ UNCHANGED dl_vars
    /\ UNCHANGED <<ld_input, schema, db, tx, chapter_verse_counts, verse_cache, gi, fi,
                   current_chapter, verse_order, error, warnings>>

\* what main observes of load_data: it returned (main then logs "created and
\* populated successfully") or it raised (main logs "Failed to set up database")
CallerSees ==
    IF ld_pc = "failed" THEN "raised"
    ELSE IF ld_pc \in {"done", "returned"} THEN "returned"
    ELSE "running"

\* load_data: the connection is open; first pass
CalculateCounts ==
    /\ ld_pc = "pass1"
    /\ chapter_verse_counts' = CalculateVerseCounts(quran_data)
    /\ ld_pc' = "chapters"
    /\ UNCHANGED dl_vars
    /\ UNCHANGED <<ld_input, schema, db, tx, verse_cache, gi, fi, current_chapter,
                   verse_order, error, warnings>>

DiscardNothing(committed, working) == working

\* the database file once get_connection has handled an exception: conn.rollback()
\* for sqlite3.Error, and conn.close() in every case, which drops what was not committed
Discard(committed, working) == committed

\* load_data raises `kind` out of the `with self.get_connection()` block
Raise(kind) ==
    /\ ld_pc' = "failed"
    /\ error' = kind
    /\ db' = Discard(db, tx)
    /\ tx' = db'
    /\ UNCHANGED dl_vars
    /\ UNCHANGED <<ld_input, schema, chapter_verse_counts, verse_cache, gi, fi,
                   current_chapter, verse_order>>

ChaptersOfCorpus == {c \in AllChapters : chapter_verse_counts[c] # 0}

\* chapters _insert_chapters inserts: listed in the name map, with a non-zero tally
ChaptersToInsert == {c \in chapters_names : chapter_verse_counts[c] # 0}

\* chapters _insert_chapters passes over with "No verses found for chapter"
ChaptersSkipped == {c \in chapters_names : chapter_verse_counts[c] = 0}

ChapterInsertOrIgnore(store, c, total) == total > 0

\* INSERT INTO chapters (chapter_id, chapter_name, total_verses): the constraints of
\* the table
ChapterInsertOk(store, c, total) ==
    /\ c \notin {r.chapter_id : r \in store.chapters}     \* PRIMARY KEY
    /\ total > 0                                          \* CHECK (total_verses > 0)

\* _insert_chapters: every INSERT INTO chapters succeeds
InsertChapters ==
    /\ ld_pc = "chapters"
    /\ \A c \in ChaptersToInsert : ChapterInsertOk(tx, c, chapter_verse_counts[c])
    /\ tx' = [tx EXCEPT !.chapters = @ \cup
                 {[chapter_id |-> c, total_verses |-> chapter_verse_counts[c]] :
                      c \in ChaptersToInsert}]
    /\ warnings' = [warnings EXCEPT !.no_verses = ChaptersSkipped]
    /\ ld_pc' = "pages"
    /\ UNCHANGED dl_vars
    /\ UNCHANGED <<ld_input, schema, db, chapter_verse_counts, verse_cache, gi, fi,
                   current_chapter, verse_order, error>>

\* _insert_chapters: an INSERT INTO chapters violates a constraint; the chapters
\* already passed over, in the order of the name map, have been warned about
InsertChaptersFail ==
    /\ ld_pc = "chapters"
    /\ \E c \in ChaptersToInsert : ~ChapterInsertOk(tx, c, chapter_verse_counts[c])
    /\ \E logged \in SUBSET ChaptersSkipped :
           warnings' = [warnings EXCEPT !.no_verses = logged]
    /\ Raise("IntegrityError")

Group == quran_data[gi]
Frag == Group.verses[fi]

\* position after the fragment at index i of the current grouping: the next fragment,
\* or the next grouping once the list is exhausted
Advance(i) ==
    IF i < Len(Group.verses)
    THEN /\ fi' = i + 1
         /\ gi' = gi
    ELSE /\ fi' = 0
         /\ gi' = gi + 1

KeepCursor(cur) == cur

\* current_chapter = None, at the top of each page
ResetCursor(cur) == NoChapter

KeepOrder(order) == order

\* verse_order = 0, at the top of each page
ResetOrder(order) == 0

\* the page's INSERT INTO pages, the IntegrityError of a duplicate being passed over
InsertPage ==
    /\ ld_pc = "pages"
    /\ gi <= Len(quran_data)
    /\ fi = 0
    /\ tx' = [tx EXCEPT !.pages = @ \cup {Group.page}]
    /\ current_chapter' = ResetCursor(current_chapter)
    /\ verse_order' = ResetOrder(verse_order)
    /\ Advance(0)
    /\ UNCHANGED dl_vars
    /\ UNCHANGED <<ld_input, schema, db, ld_pc, chapter_verse_counts, verse_cache, error,
                   warnings>>

VerseInsertUnenforced(store, frag) ==
    /\ frag.verse > 0
    /\ <<frag.chapter, frag.verse>> \notin
           {<<r.chapter_id, r.verse_number>> : r \in store.verses}

\* INSERT INTO verses (chapter_id, verse_number, verse_text): the constraints of the table
VerseInsertOk(store, frag) ==
    /\ frag.verse > 0                                              \* CHECK valid_verse_number
    /\ frag.chapter \in {r.chapter_id : r \in store.chapters}      \* FOREIGN KEY
    /\ <<frag.chapter, frag.verse>> \notin
           {<<r.chapter_id, r.verse_number>> : r \in store.verses} \* UNIQUE

\* the store after the verse of `frag` is there: unchanged on a cache hit, else with a
\* new row whose AUTOINCREMENT id follows the sequence
WithVerse(store, frag, cached) ==
    IF cached THEN store
    ELSE [store EXCEPT
             !.verses = @ \cup {[verse_id |-> store.verse_seq + 1,
                                 chapter_id |-> frag.chapter,
                                 verse_number |-> frag.verse]},
             !.verse_seq = @ + 1]

VerseIdLastRow(store, cache, frag) == store.verse_seq

\* verse_id = verse_cache[verse_key], after the cache was filled with cursor.lastrowid
VerseId(store, cache, frag) ==
    IF VerseKey(frag) \in DOMAIN cache THEN cache[VerseKey(frag)] ELSE store.verse_seq

PageVerseInsertOrIgnore(store, page, vid, order) ==
    /\ page \in store.pages
    /\ vid \in {r.verse_id : r \in store.verses}
    /\ <<page, order>> \notin
           {<<r.page_id, r.verse_order>> : r \in store.page_verses}

\* INSERT INTO page_verses: the constraints of the table
PageVerseInsertOk(store, page, vid, order) ==
    /\ page \in store.pages                                        \* FOREIGN KEY
    /\ vid \in {r.verse_id : r \in store.verses}                   \* FOREIGN KEY
    /\ <<page, vid>> \notin
           {<<r.page_id, r.verse_id>> : r \in store.page_verses}   \* PRIMARY KEY
    /\ <<page, order>> \notin
           {<<r.page_id, r.verse_order>> : r \in store.page_verses} \* UNIQUE

AlwaysNewChapter(cur, chapter_id) == TRUE

\* starts_new_chapter = (current_chapter != chapter_id)
StartsNewChapter(cur, chapter_id) == cur # chapter_id

\* whether the body of the fragment loop runs through for the current fragment, and
\* the exception it raises otherwise
FragmentOutcome ==
    LET cached == VerseKey(Frag) \in DOMAIN verse_cache
        after  == WithVerse(tx, Frag, cached)
    IN  IF ~cached /\ ~Frag.text THEN "KeyError"                    \* verse['text']
        ELSE IF ~cached /\ ~VerseInsertOk(tx, Frag) THEN "IntegrityError"
        ELSE IF ~PageVerseInsertOk(after, Group.page,
                                   VerseId(after, verse_cache, Frag), verse_order)
             THEN "IntegrityError"
        ELSE "ok"

\* one iteration of `for verse in verses`: the verse row (unless cached), the
\* page_verses row, the cursor and the counter
InsertFragment ==
    /\ ld_pc = "pages"
    /\ gi <= Len(quran_data)
    /\ fi >= 1
    /\ FragmentOutcome = "ok"
    /\ LET cached == VerseKey(Frag) \in DOMAIN verse_cache
           after  == WithVerse(tx, Frag, cached)
           vid    == VerseId(after, verse_cache, Frag)
       IN  /\ verse_cache' = IF cached THEN verse_cache
                             ELSE verse_cache @@ (VerseKey(Frag) :> after.verse_seq)
           /\ tx' = [after EXCEPT !.page_verses = @ \cup
                        {[page_id |-> Group.page, verse_id |-> vid,
                          verse_order |-> verse_order,
                          starts_new_chapter |->
                              StartsNewChapter(current_chapter, Frag.chapter)]}]
    /\ current_chapter' = Frag.chapter
    /\ verse_order' = verse_order + 1
    /\ Advance(fi)
    /\ UNCHANGED dl_vars
    /\ UNCHANGED <<ld_input, schema, db, ld_pc, chapter_verse_counts, error, warnings>>

\* the iteration raises: a missing key, or a constraint of verses or page_verses
InsertFragmentFail ==
    /\ ld_pc = "pages"
    /\ gi <= Len(quran_data)
    /\ fi >= 1
    /\ FragmentOutcome # "ok"
    /\ UNCHANGED warnings
    /\ Raise(FragmentOutcome)

\* conn.commit()
Commit ==
    /\ ld_pc = "pages"
    /\ gi > Len(quran_data)
    /\ db' = tx
    /\ ld_pc' = "verify"
    /\ UNCHANGED dl_vars
    /\ UNCHANGED <<ld_input, schema, tx, chapter_verse_counts, verse_cache, gi, fi,
                   current_chapter, verse_order, error, warnings>>

\* COUNT(v.verse_id) of the LEFT JOIN, per chapter
ActualVerses(store, c) == Cardinality({v \in store.verses : v.chapter_id = c})

\* first query of _verify_data_integrity
Discrepancies(store) ==
    {<<c.chapter_id, c.total_verses, ActualVerses(store, c.chapter_id)>> :
        c \in {r \in store.chapters : r.total_verses # ActualVerses(store, r.chapter_id)}}

\* second query of _verify_data_integrity
DuplicateOrders(store) ==
    {po \in {<<r.page_id, r.verse_order>> : r \in store.page_verses} :
        Cardinality({r \in store.page_verses :
                        <<r.page_id, r.verse_order>> = po}) > 1}

AfterVerifyStrict(discrepancies, duplicate_orders) ==
    IF discrepancies = {} /\ duplicate_orders = {} THEN "done" ELSE "failed"

\* what follows the two queries: `if discrepancies: logger.warning(...)`, likewise
\* for duplicate_orders, and the method returns
AfterVerify(discrepancies, duplicate_orders) == "done"

\* _verify_data_integrity: two SELECTs, warnings only
Verify ==
    /\ ld_pc = "verify"
    /\ warnings' = [warnings EXCEPT !.discrepancies = Discrepancies(tx),
                                    !.duplicate_orders = DuplicateOrders(tx)]
    /\ ld_pc' = AfterVerify(Discrepancies(tx), DuplicateOrders(tx))
    /\ UNCHANGED dl_vars
    /\ UNCHANGED <<ld_input, schema, db, tx, chapter_verse_counts, verse_cache, gi, fi,
                   current_chapter, verse_order, error>>

\* main is run again on the same input files and the same database file: a new
\* builder, a new connection, a new verse_cache
Restart ==
    /\ ld_pc \in {"done", "failed", "returned"}
    /\ ld_pc' = "create"
    /\ tx' = db
    /\ chapter_verse_counts' = [c \in AllChapters |-> 0]
    /\ verse_cache' = <<>>
    /\ gi' = 1
    /\ fi' = 0
    /\ current_chapter' = NoChapter
    /\ verse_order' = 0
    /\ error' = "none"
    /\ warnings' = NoWarnings
    /\ UNCHANGED dl_vars
    /\ UNCHANGED <<ld_input, schema, db>>

NextLoad ==
    \/ CreateTables
    \/ LoadDocuments
    \/ LoadDocumentsFail
    \/ CalculateCounts
    \/ InsertChapters
    \/ InsertChaptersFail
    \/ InsertPage
    \/ InsertFragment
    \/ InsertFragmentFail
    \/ Commit
    \/ Verify
    \/ Restart

SpecDownload == InitDownload /\ [][NextDownload]_vars

\* the event loop runs every task that can run: a request answers or fails, a
\* write completes or fails, gather resumes
SpecDownloadFair == InitDownload /\ [][NextDownload]_vars /\ WF_vars(NextDownload)

SpecLoad == InitLoad /\ [][NextLoad]_vars

\* ================================================================ claims
\* ---- downloader

\* C1: at every moment of a download run the number of fetches holding a permit
\* (request in flight, body being parsed, per-page artifact being written) is at
\* most max_concurrent, whatever the batch size.
C1_PermitsBounded == HeldPermits <= max_concurrent

\* a batch larger than the cap: every permit is held and another fetch waits
C1_Witness ==
    /\ batch_size > max_concurrent
    /\ HeldPermits = max_concurrent
    /\ \E p \in Pages : task[p] = "waiting"
    /\ \E p \in Pages : task[p] = "write"

\* pages of the batches before the current one
EarlierPages == {q \in Pages : start_page <= q /\ q < batch_start}

C2_State ==
    \A p \in Pages :
        task[p] # "idle" =>
            /\ dl_pc = "gather"
            /\ p \in Range(BatchPages)
            /\ \A q \in EarlierPages :
                   /\ fetches[q] = 1
                   /\ task[q] = "idle"
                   /\ q \in Range(all_pages) \/ q \in failed

C2_Step ==
    /\ all_pages' # all_pages => \A p \in Pages : task[p] \notin InFlight
    /\ batch_start' >= batch_start
    /\ batch_start' # batch_start => all_pages' = all_pages \o Survivors

\* C2: batches run one after the other in ascending page order: a task exists only
\* for a page of the current batch, and only once every page of the earlier batches
\* was fetched and either accumulated or reported failed; the accumulated list
\* changes only while no fetch is in flight, by appending the batch's survivors.
C2_BatchesSequential == [](C2_State) /\ [][C2_Step]_vars

\* a fetch of a later batch in flight, after a batch with a survivor and a failure
C2_Witness ==
    /\ batch_start > start_page
    /\ \E p \in Pages : task[p] \in Holding
    /\ all_pages # <<>>
    /\ failed # {}

\* C3: for the range [1, N] and no failed fetch, the combined artifact lists the
\* pages 1, 2, ..., N: N entries, each page once, ascending.
C3_CompleteWithoutFailures ==
    (dl_pc = "done" /\ start_page = 1 /\ failed = {}) =>
        complete_file = [i \in 1..end_page |-> i]

\* such a run over several batches, some of them larger than the cap
C3_Witness ==
    /\ dl_pc = "done"
    /\ start_page = 1
    /\ failed = {}
    /\ end_page = MaxPage
    /\ batch_size > max_concurrent
    /\ batch_size < end_page
    /\ complete_writes = 1

\* C4: a failed fetch costs its page and nothing else: no page is fetched twice,
\* and once the loop is over every page of [start, end] was fetched once and the
\* accumulated list is the pages of [start, end] that did not fail, ascending.
C4_FailuresPerPage ==
    /\ \A p \in Pages : fetches[p] <= 1
    /\ dl_pc \in {"save", "done", "crashed"} =>
           /\ \A p \in Pages : fetches[p] = (IF start_page <= p /\ p <= end_page THEN 1 ELSE 0)
           /\ Range(all_pages) = {p \in Pages : start_page <= p /\ p <= end_page} \ failed
           /\ \A i, j \in 1..Len(all_pages) : i < j => all_pages[i] < all_pages[j]

\* a finished run with failed pages in more than one batch, and survivors
C4_Witness ==
    /\ dl_pc = "done"
    /\ \E p, q \in failed : q >= p + batch_size
    /\ all_pages # <<>>

\* ---- loader

\* number of fragments the document holds for page P
FragmentsOn(P) ==
    SumSeq([g \in 1..Len(quran_data) |->
               IF quran_data[g].page = P THEN Len(quran_data[g].verses) ELSE 0])

RowsOn(store, P) == {r \in store.page_verses : r.page_id = P}

\* C5: after a successful load the orders of the page_verses rows of each page are
\* 0, 1, ..., k-1, each once, k being the number of fragments of the page.
C5_OrderContiguous ==
    ld_pc = "done" =>
        \A P \in PageIds :
            /\ {r.verse_order : r \in RowsOn(db, P)} = 0..(FragmentsOn(P) - 1)
            /\ Cardinality(RowsOn(db, P)) = FragmentsOn(P)

\* a load of two pages with rows, one of them with several
C5_Witness ==
    /\ ld_pc = "done"
    /\ \A P \in PageIds : RowsOn(db, P) # {}
    /\ \E r \in db.page_verses : r.verse_order >= 1

\* chapter of the verse a page_verses row references
ChapterOfRow(store, r) ==
    (CHOOSE v \in store.verses : v.verse_id = r.verse_id).chapter_id

\* C6: after a successful load a page_verses row is flagged starts_new_chapter
\* exactly when its order is 0 or its chapter differs from that of the row before
\* it on the same page; what the previous page ended with does not matter.
C6_ChapterBoundaries ==
    ld_pc = "done" =>
        \A r \in db.page_verses :
            IF r.verse_order = 0 THEN r.starts_new_chapter
            ELSE \E q \in RowsOn(db, r.page_id) :
                    /\ q.verse_order = r.verse_order - 1
                    /\ r.starts_new_chapter <=> (ChapterOfRow(db, r) # ChapterOfRow(db, q))

\* a page that starts with the chapter the page before it ended with, and a row
\* that opens a chapter in the middle of a page
C6_Witness ==
    /\ ld_pc = "done"
    /\ Len(quran_data) = 2
    /\ Len(quran_data[1].verses) >= 1
    /\ Len(quran_data[2].verses) >= 1
    /\ quran_data[1].verses[Len(quran_data[1].verses)].chapter
           = quran_data[2].verses[1].chapter
    /\ \E r \in db.page_verses : r.verse_order >= 1 /\ r.starts_new_chapter

\* C7: after a successful load each (chapter, verse number) of the corpus has
\* exactly one verses row, and the page_verses row of every fragment references it.
C7_VerseUnique ==
    ld_pc = "done" =>
        \A g \in 1..Len(quran_data) :
            \A i \in 1..Len(quran_data[g].verses) :
                LET f    == quran_data[g].verses[i]
                    rows == {v \in db.verses : /\ v.chapter_id = f.chapter
                                               /\ v.verse_number = f.verse}
                IN  /\ Cardinality(rows) = 1
                    /\ \E r \in RowsOn(db, quran_data[g].page) :
                           /\ r.verse_order = i - 1
                           /\ r.verse_id \in {v.verse_id : v \in rows}

\* a verse referenced from two pages, stored after another verse
C7_Witness ==
    /\ ld_pc = "done"
    /\ \E v \in db.verses :
           /\ Cardinality({r \in db.page_verses : r.verse_id = v.verse_id}) >= 2
           /\ v.verse_id < db.verse_seq

\* C8: after a load every chapters row has total_verses equal to the number of
\* verses rows of that chapter.
C8_ChapterCountsReconcile ==
    ld_pc \in {"verify", "done"} =>
        \A c \in db.chapters : c.total_verses = ActualVerses(db, c.chapter_id)

\* the same page number in two groupings
DuplicatePage ==
    \E g, h \in 1..Len(quran_data) : g # h /\ quran_data[g].page = quran_data[h].page

\* a corpus each grouping of which loads on its own: every fragment has its text
\* and a named chapter, and no grouping holds a verse twice
GroupingsSound ==
    \A g \in 1..Len(quran_data) :
        LET vs == quran_data[g].verses
        IN  /\ \A i \in 1..Len(vs) : vs[i].text /\ vs[i].chapter \in chapters_names
            /\ \A i, j \in 1..Len(vs) : i # j => VerseKey(vs[i]) # VerseKey(vs[j])

\* C9: a page number that occurs in two groupings raises no error: the load of an
\* otherwise sound corpus into an empty store does not fail.
C9_DuplicatePageTolerated ==
    (DuplicatePage /\ GroupingsSound /\ db = EmptyStore) => ld_pc # "failed"

\* C10: the committed store changes in one step only, the commit that ends the
\* population; a load that raises before it leaves the store as it found it.
C10_LoadAtomic ==
    [][/\ db' # db => (ld_pc = "pages" /\ gi > Len(quran_data) /\ ld_pc' = "verify" /\ db' = tx)
       /\ ld_pc' = "failed" => (db' = db /\ tx' = db)]_vars

\* a load that raised on a missing key after rows were inserted in the transaction
C10_Witness ==
    /\ ld_pc = "failed"
    /\ error = "KeyError"
    /\ verse_cache # <<>>
    /\ db = EmptyStore

\* chapters some fragment of the corpus belongs to
CorpusChapters ==
    {c \in AllChapters :
        \E g \in 1..Len(quran_data) :
            \E i \in 1..Len(quran_data[g].verses) : quran_data[g].verses[i].chapter = c}

\* C11: once _insert_chapters has run, the chapters rows are exactly the chapters
\* of the name map that some fragment belongs to, the other chapters of the name
\* map have been warned about, and no chapters row ever has total_verses 0.
C11_ChaptersInserted ==
    /\ \A r \in tx.chapters \cup db.chapters : r.total_verses > 0
    /\ ld_pc \in {"pages", "verify", "done"} =>
           /\ {r.chapter_id : r \in tx.chapters} = chapters_names \cap CorpusChapters
           /\ warnings.no_verses = chapters_names \ CorpusChapters

\* a finished load that stored a chapter and warned about two chapters of the
\* name map, one of which other corpora reference
C11_Witness ==
    /\ ld_pc = "done"
    /\ db.chapters # {}
    /\ Cardinality(warnings.no_verses) >= 2
    /\ warnings.no_verses \cap Chapters # {}


\* C12: when the corpus document or the chapter-name map is missing or malformed,
\* load_data never returns to its caller as if it had succeeded (the failure is
\* raised), and the store holds no row.
C12_DocumentFailureFatal ==
    (quran_file # "ok" \/ names_file # "ok") =>
        /\ CallerSees # "returned"
        /\ db = EmptyStore
        /\ tx = EmptyStore


\* the worked example: one grouping, page 1, with the fragments (1, 7), (2, 1) and
\* (2, 2), and a name map that lists chapters 1 and 2; the load has succeeded
ExampleLoaded ==
    /\ quran_data = << [page |-> 1,
                        verses |-> << Fragment(1, 7, TRUE), Fragment(2, 1, TRUE),
                                      Fragment(2, 2, TRUE) >>] >>
    /\ {1, 2} \subseteq chapters_names
    /\ ld_pc = "done"

\* the page_verses rows and the chapters rows the example leaves
ExampleRows ==
    /\ {<<r.page_id, r.verse_order, r.starts_new_chapter>> : r \in db.page_verses}
           = {<<1, 0, TRUE>>, <<1, 1, TRUE>>, <<1, 2, FALSE>>}
    /\ Cardinality(db.page_verses) = 3
    /\ db.chapters = {[chapter_id |-> 1, total_verses |-> 1],
                      [chapter_id |-> 2, total_verses |-> 2]}

\* C13 as stated: the example yields 2 verses rows, 3 page_verses rows with orders
\* 0, 1, 2 and flags true, true, false, chapter 1 with count 1, chapter 2 with count 2.
C13_ExampleTwoVerses ==
    ExampleLoaded => (Cardinality(db.verses) = 2 /\ ExampleRows)

\* C13, amended: the example yields 3 verses rows, one for each of (1, 7), (2, 1)
\* and (2, 2), 3 page_verses rows with orders 0, 1, 2 and flags true, true, false,
\* chapter 1 with count 1 and chapter 2 with count 2.
C13_ExampleThreeVerses ==
    ExampleLoaded =>
        /\ Cardinality(db.verses) = 3
        /\ {<<v.chapter_id, v.verse_number>> : v \in db.verses}
               = {<<1, 7>>, <<2, 1>>, <<2, 2>>}
        /\ ExampleRows

C13_Witness ==
    /\ ExampleLoaded
    /\ Cardinality(db.page_verses) = 3


\* fetches whose per-page artifact write has been handed to the executor and has
\* not completed
PendingWrites == {q \in Pages : task[q] = "write"}

\* C14: a fetch that is waiting to start is never kept from starting by pending
\* per-page writes of other pages: whenever every fetch in flight is only
\* waiting for its write, a waiting fetch can start.
C14_WritesNeverBlockFetches ==
    \A p \in Pages :
        (/\ task[p] = "waiting"
         /\ PendingWrites # {}
         /\ \A q \in Pages : task[q] \in Holding => q \in PendingWrites)
            => ENABLED Acquire(p)


\* what the step out of the verifier must look like
C15_Step ==
    ld_pc = "verify" =>
        /\ db' = db
        /\ tx' = tx
        /\ ld_pc' = "done"
        /\ error' = "none"

\* C15: the verifier runs only on committed work (the store holds exactly the
\* rows of the connection), and whatever it finds, its step leaves every row as
\* it was at the commit and ends the load as done, never as failed.
C15_VerifierAdvisory ==
    /\ [](ld_pc \in {"verify", "done"} => (db = tx /\ error = "none"))
    /\ [][C15_Step]_vars

\* a load that completed although the verifier found a discrepancy
C15_Witness ==
    /\ ld_pc = "done"
    /\ warnings.discrepancies # {}
    /\ db.page_verses # {}


\* what a call of create_tables on an initialized store must look like
C16_Step ==
    (ld_pc = "create" /\ SchemaObjects \subseteq schema) =>
        /\ schema' = schema
        /\ db' = db
        /\ ld_pc' = "load"
        /\ error' = error

\* C16: create_tables on a store that already has the four tables and the two
\* indexes, with or without rows, raises nothing and leaves the tables, their
\* constraints and every row as they were.
C16_CreateTablesIdempotent == [][C16_Step]_vars

\* create_tables has run on a populated store
C16_Witness ==
    /\ ld_pc = "load"
    /\ db.chapters # {}
    /\ db.verses # {}
    /\ db.pages # {}
    /\ db.page_verses # {}


\* what the step that ends a per-page write must look like
C17_Step ==
    \A p \in Pages :
        (task[p] = "write" /\ task'[p] # "write") =>
            \/ task'[p] = "data" /\ p \in page_files'
            \/ task'[p] = "absent" /\ p \notin page_files' /\ printed'[p] = "write"

\* C17: a fetch has returned data only if the per-page artifact of its page is
\* written, so every page of the accumulated list has its artifact; a page whose
\* write failed has been returned as absent and is not in the accumulated list.
C17_DataOnlyAfterPersist ==
    /\ [](\A p \in Pages :
             /\ task[p] = "data" => p \in page_files
             /\ p \in Range(all_pages) => p \in page_files
             /\ printed[p] = "write" =>
                    (task[p] \in {"absent", "idle"} /\ p \notin Range(all_pages)))
    /\ [][C17_Step]_vars

\* a finished run that accumulated a page and lost another one to a failed write
C17_Witness ==
    /\ dl_pc = "done"
    /\ all_pages # <<>>
    /\ \E p \in Pages : printed[p] = "write"


\* what a step that writes the combined artifact must look like
C18_Step ==
    (complete_file' # complete_file \/ complete_writes' # complete_writes) =>
        /\ dl_pc = "save"
        /\ dl_pc' = "done"
        /\ batch_start > end_page
        /\ complete_writes' = complete_writes + 1
        /\ complete_file' = all_pages

\* C18: the combined artifact is written at most once, by a step taken after the
\* last batch was accumulated, with the whole accumulated list; the run is done
\* exactly when that write has completed.
C18_CombinedWrittenOnce ==
    /\ [](complete_writes <= 1)
    /\ [](dl_pc = "done" <=> complete_writes = 1)
    /\ [](dl_pc = "done" => (complete_file = all_pages /\ batch_start > end_page))
    /\ [][C18_Step]_vars

\* a finished run of several batches whose combined artifact lists several pages
C18_Witness ==
    /\ dl_pc = "done"
    /\ complete_writes = 1
    /\ Len(complete_file) >= 2
    /\ start_page + batch_size <= end_page


\* some grouping lists the same (chapter, verse number) twice
RepeatedOnPage ==
    \E g \in 1..Len(quran_data) :
        \E i, j \in 1..Len(quran_data[g].verses) :
            i < j /\ VerseKey(quran_data[g].verses[i]) = VerseKey(quran_data[g].verses[j])

\* the fragment loop stands at a fragment whose key an earlier fragment of the
\* same grouping had
AtRepeat ==
    /\ ld_pc = "pages"
    /\ gi <= Len(quran_data)
    /\ fi >= 2
    /\ \E i \in 1..(fi - 1) : VerseKey(Group.verses[i]) = VerseKey(Frag)

\* what the step at a repeated fragment must look like
C19_Step ==
    AtRepeat =>
        /\ ld_pc' = "failed"
        /\ error' = "IntegrityError"
        /\ db' = db
        /\ tx' = db

\* C19: the second occurrence of a (chapter, verse number) on a page makes the
\* page_verses INSERT raise; the load fails there, its work is rolled back, and a
\* corpus with such a page never gets a row into the store.
C19_RepeatedFragmentRaises ==
    /\ [](AtRepeat => FragmentOutcome = "IntegrityError")
    /\ [](RepeatedOnPage => (ld_pc \notin {"verify", "done"} /\ db = EmptyStore))
    /\ [][C19_Step]_vars

\* a load that failed at the second occurrence, after rows had been inserted
C19_Witness ==
    /\ ld_pc = "failed"
    /\ error = "IntegrityError"
    /\ gi <= Len(quran_data)
    /\ fi >= 2
    /\ \E i \in 1..(fi - 1) : VerseKey(Group.verses[i]) = VerseKey(Frag)
    /\ db = EmptyStore


\* C20: permits never leak: the permits out are exactly those of the fetches
\* inside the semaphore block, none is out between batches or once the loop has
\* ended, and under a fair event loop download_all ends for every pattern of
\* failures.
C20_PermitsNeverLeak ==
    /\ [](semaphore + HeldPermits = max_concurrent)
    /\ [](dl_pc \in {"loop", "save", "done", "crashed"} => semaphore = max_concurrent)
    /\ <>(dl_pc \in {"done", "crashed"})

\* a finished run that saw a fetch fail in each of the ways a fetch can fail
C20_Witness ==
    /\ dl_pc = "done"
    /\ semaphore = max_concurrent
    /\ \E p, q, r \in Pages :
           printed[p] \in {"status", "network"} /\ printed[q] = "body" /\ printed[r] = "write"
    /\ all_pages # <<>>


\* every verses row references a chapters row, every page_verses row a pages row
\* and a verses row
ReferencesResolve(store) ==
    /\ \A v \in store.verses : v.chapter_id \in {c.chapter_id : c \in store.chapters}
    /\ \A r \in store.page_verses :
           /\ r.page_id \in store.pages
           /\ r.verse_id \in {v.verse_id : v \in store.verses}

\* the fragment loop stands at a fragment whose chapter the name map does not list
AtUnlistedChapter ==
    /\ gi <= Len(quran_data)
    /\ fi >= 1
    /\ Frag.chapter \notin chapters_names

\* what the step at a fragment of an unlisted chapter must look like
C21_Step ==
    (ld_pc = "pages" /\ AtUnlistedChapter) =>
        /\ ld_pc' = "failed"
        /\ db' = db
        /\ tx' = db

\* C21: the committed store always has every verses row referencing a chapters
\* row and every page_verses row referencing a pages row and a verses row; a
\* fragment whose chapter the name map does not list makes the verses INSERT
\* fail on its foreign key, the load fails there and commits nothing.
C21_ReferentialIntegrity ==
    /\ [](ReferencesResolve(db))
    /\ []((ld_pc = "pages" /\ AtUnlistedChapter /\ Frag.text)
              => FragmentOutcome = "IntegrityError")
    /\ [](~(CorpusChapters \subseteq chapters_names)
              => (ld_pc \notin {"verify", "done"} /\ db = EmptyStore))
    /\ [][C21_Step]_vars

\* a load that had inserted rows and failed at a fragment of an unlisted chapter
C21_Witness ==
    /\ ld_pc = "failed"
    /\ error = "IntegrityError"
    /\ AtUnlistedChapter
    /\ Frag.text
    /\ fi >= 2
    /\ db = EmptyStore


\* the corpus has at least one fragment
HasFragments == \E g \in 1..Len(quran_data) : Len(quran_data[g].verses) >= 1

\* a run that stands before _insert_chapters with rows in the store: the store
\* changes at a commit only, so the rows are those of an earlier, successful load
RerunAtChapters == ld_pc = "chapters" /\ db # EmptyStore

\* the chapters step of a run ends in a raised IntegrityError, the store as it was
FailsAtChapters ==
    /\ ld_pc' = "failed"
    /\ error' = "IntegrityError"
    /\ db' = db
    /\ tx' = db

\* C22 as stated: a second load on a store that a successful load of a non-empty
\* corpus (a corpus with at least one grouping) populated fails at the chapter
\* insertion, raises, and leaves the rows of the first load as they were.
C22_RerunFails ==
    /\ [][(RerunAtChapters /\ Len(quran_data) >= 1) => FailsAtChapters]_vars
    /\ [][db # EmptyStore => db' = db]_vars

\* C22, amended: a second load on a store that a successful load of a corpus with
\* at least one fragment populated fails at the first chapter insertion (primary
\* key), raises, and leaves the rows of the first load as they were; it never
\* gets to the pages, with or without a dedup map.
C22_RerunWithFragmentsFails ==
    /\ [][(RerunAtChapters /\ HasFragments) => FailsAtChapters]_vars
    /\ [][db # EmptyStore => db' = db]_vars
    /\ []((HasFragments /\ db # EmptyStore) => ld_pc # "pages")
    /\ []((HasFragments /\ db # EmptyStore /\ ld_pc = "chapters") =>
              \A c \in ChaptersToInsert : c \in {r.chapter_id : r \in db.chapters})

\* the second run has failed at the chapters, the store still holds the first load
C22_Witness ==
    /\ ld_pc = "failed"
    /\ error = "IntegrityError"
    /\ CallerSees = "raised"
    /\ verse_cache = <<>>
    /\ db.chapters # {}
    /\ db.page_verses # {}
    /\ tx = db

====
